---- MODULE Spec2Model ----
(***************************************************************************)
(* BaseLanguageModel (packages/ai-native, base-language-model): the        *)
(* streaming bridge between a provider's chunk stream (streamText's        *)
(* fullStream) and a ChatReadableStream sink.                              *)
(*                                                                         *)
(* JavaScript strings that the code cuts, searches or joins are sequences  *)
(* of one-character strings; strings the code only passes along are TLA+   *)
(* strings.  The sink is the log of the calls made on chatReadableStream.  *)
(***************************************************************************)
EXTENDS Integers, Sequences, FiniteSets, TLC

VARIABLES
    pc,            \* "idle" | "streaming" | "returned" | "thrown" (request() rejected)
    trimTexts,     \* <<>> when options.trimTexts is undefined, else <<prefix, suffix>>
    hasToken,      \* whether a cancellationToken was passed
    cancelled,     \* the cancellation token has been cancelled
    aborted,       \* abortController.signal.aborted
    isFirstChunk,  \* local of handleStreamingRequest
    bufferedText,  \* local of handleStreamingRequest
    pendingLines,  \* local of handleStreamingRequest
    chunks,        \* the chunks pulled from stream.fullStream so far
    caught,        \* the value the catch clause received, NoError when none
    sink,          \* the calls made on chatReadableStream, in order
    registry,      \* the client's tool registry: what getAllFunctions() returns
    noTool,        \* options.noTool
    allFunctions,  \* local of request(): the tools handed to handleStreamingRequest
    aiTools,       \* local of handleStreamingRequest: the table given to streamText
    history,       \* options.history || []
    request,       \* the request string
    messages,      \* local of handleStreamingRequest: the messages given to streamText
    trace,         \* the collaborators request() has called, in order
    cancelAt,      \* what the request had done when the token was first cancelled
    r2             \* a second, concurrent call of handleStreamingRequest: its locals and sink

\* Set by request() and handleStreamingRequest's setup, and by nothing else
reqVars == <<noTool, allFunctions, aiTools, history, request, messages, trace>>

vars == <<pc, trimTexts, hasToken, cancelled, aborted, isFirstChunk,
          bufferedText, pendingLines, chunks, caught, sink, registry,
          reqVars, cancelAt, r2>>

-----------------------------------------------------------------------------
(* Bounds of the model *)

MaxChunks == 3

-----------------------------------------------------------------------------
(* JavaScript string operations, on sequences of characters *)

NL == "\n"

Last(s) == s[Len(s)]

Front(s) == SubSeq(s, 1, Len(s) - 1)

\* s.substring(i, i + |needle|) === needle, i zero-based
OccursAt(s, needle, i) ==
    /\ i + Len(needle) <= Len(s)
    /\ SubSeq(s, i + 1, i + Len(needle)) = needle

\* String.prototype.indexOf: zero-based index of the first occurrence, -1 if none
IndexOf(s, needle) ==
    IF \E i \in 0..Len(s) : OccursAt(s, needle, i)
    THEN CHOOSE i \in 0..Len(s) :
            /\ OccursAt(s, needle, i)
            /\ \A j \in 0..(i - 1) : ~OccursAt(s, needle, j)
    ELSE -1

\* String.prototype.includes
Includes(s, needle) == IndexOf(s, needle) # -1

\* String.prototype.substring(from), from zero-based
Substring(s, from) == SubSeq(s, from + 1, Len(s))

\* String.prototype.substring(0, to)
SubstringTo(s, to) == SubSeq(s, 1, to)

\* String.prototype.endsWith
EndsWith(s, suffix) ==
    /\ Len(suffix) <= Len(s)
    /\ SubSeq(s, Len(s) - Len(suffix) + 1, Len(s)) = suffix

\* String.prototype.split('\n'): the pieces between newlines, <<"">> for ""
RECURSIVE Split(_)
Split(s) ==
    LET i == IndexOf(s, <<NL>>)
    IN  IF i = -1
        THEN <<s>>
        ELSE <<SubstringTo(s, i)>> \o Split(Substring(s, i + 1))

\* Variant of JSONStringify that passes the bare value instead of JSON text
JSONStringifyBare(args) == args.q

\* JSON.stringify of a tool's argument object {q: <string>}
JSONStringify(args) == "{\"q\":\"" \o args.q \o "\"}"

-----------------------------------------------------------------------------
(* The calls on the sink (ChatReadableStream) *)

EmitContent(text) == [call |-> "emitData", kind |-> "content", text |-> text]

EmitToolCall(tc) == [call |-> "emitData", kind |-> "toolCall", tool |-> tc]

EmitError(err) == [call |-> "emitError", error |-> err]

End == [call |-> "end"]

\* new Error(message)
NewError(message) == [name |-> "Error", message |-> message]

NoError == [name |-> "", message |-> ""]

-----------------------------------------------------------------------------
(* Trim filter: the text-delta branch when trimTexts is configured *)

RetainLines == 3

\* Variant of ReleaseLines that keeps one line fewer
RECURSIVE ReleaseLinesEager(_, _)
ReleaseLinesEager(pending, out) ==
    IF Len(pending) >= RetainLines
    THEN ReleaseLinesEager(Tail(pending),
                           Append(out, EmitContent(Head(pending) \o <<NL>>)))
    ELSE [pendingLines |-> pending, calls |-> out]

\* Variant of ReleaseLines that keeps one line more
RECURSIVE ReleaseLinesLate(_, _)
ReleaseLinesLate(pending, out) ==
    IF Len(pending) > RetainLines + 1
    THEN ReleaseLinesLate(Tail(pending),
                          Append(out, EmitContent(Head(pending) \o <<NL>>)))
    ELSE [pendingLines |-> pending, calls |-> out]

\* while (pendingLines.length > 3) { emitData(pendingLines.shift() + '\n') }
RECURSIVE ReleaseLines(_, _)
ReleaseLines(pending, out) ==
    IF Len(pending) > RetainLines
    THEN ReleaseLines(Tail(pending),
                      Append(out, EmitContent(Head(pending) \o <<NL>>)))
    ELSE [pendingLines |-> pending, calls |-> out]

\* Variant of TrimDelta that strips the prefix wherever the buffer holds it,
\* whether or not it was stripped before
TrimDeltaStripsAgain(st, delta, trim) ==
    LET appended == st.bufferedText \o delta
        strip    == Includes(appended, trim[1])
        stripped == IF strip
                    THEN Substring(appended, IndexOf(appended, trim[1]) + Len(trim[1]))
                    ELSE appended
        lines    == Split(stripped)
        released == ReleaseLines(st.pendingLines \o Front(lines), <<>>)
    IN  [isFirstChunk |-> IF strip THEN FALSE ELSE st.isFirstChunk,
         bufferedText |-> Last(lines),
         pendingLines |-> released.pendingLines,
         calls        |-> released.calls]

\* bufferedText += delta; strip the prefix once; split off the complete lines;
\* release all but the last three pending lines
TrimDelta(st, delta, trim) ==
    LET appended == st.bufferedText \o delta
        strip    == st.isFirstChunk /\ Includes(appended, trim[1])
        stripped == IF strip
                    THEN Substring(appended, IndexOf(appended, trim[1]) + Len(trim[1]))
                    ELSE appended
        lines    == Split(stripped)
        released == ReleaseLines(st.pendingLines \o Front(lines), <<>>)
    IN  [isFirstChunk |-> IF strip THEN FALSE ELSE st.isFirstChunk,
         bufferedText |-> Last(lines),
         pendingLines |-> released.pendingLines,
         calls        |-> released.calls]

\* Variant of ToolCallId that always synthesizes the id from the clock
ToolCallIdAlwaysNow(chunk, now) == now

\* chunk.toolCallId || Date.now().toString()
ToolCallId(chunk, now) == IF chunk.toolCallId # "" THEN chunk.toolCallId ELSE now

\* The body of the for-await loop: one chunk, by its type
HandleChunk(st, chunk, trim, now) ==
    LET same(calls) == [isFirstChunk |-> st.isFirstChunk,
                        bufferedText |-> st.bufferedText,
                        pendingLines |-> st.pendingLines,
                        calls        |-> calls]
    IN  CASE chunk.type = "text-delta" ->
                IF Len(trim) > 0
                THEN TrimDelta(st, chunk.textDelta, trim)
                ELSE same(<<EmitContent(chunk.textDelta)>>)
          [] chunk.type = "tool-call" ->
                same(<<EmitToolCall(
                    [id       |-> ToolCallId(chunk, now),
                     type     |-> "function",
                     function |-> [name |-> chunk.toolName,
                                   arguments |-> JSONStringify(chunk.args)],
                     state    |-> "complete"])>>)
          [] chunk.type = "tool-call-streaming-start" ->
                same(<<EmitToolCall(
                    [id       |-> chunk.toolCallId,
                     type     |-> "function",
                     function |-> [name |-> chunk.toolName],
                     state    |-> "streaming-start"])>>)
          [] chunk.type = "tool-call-delta" ->
                same(<<EmitToolCall(
                    [id       |-> chunk.toolCallId,
                     type     |-> "function",
                     function |-> [name |-> chunk.toolName,
                                   arguments |-> chunk.argsTextDelta],
                     state    |-> "streaming"])>>)
          [] chunk.type = "tool-result" ->
                same(<<EmitToolCall(
                    [id       |-> chunk.toolCallId,
                     type     |-> "function",
                     function |-> [name |-> chunk.toolName,
                                   arguments |-> JSONStringify(chunk.args)],
                     result   |-> chunk.result,
                     state    |-> "result"])>>)
          [] chunk.type = "error" ->
                same(<<EmitError(NewError(chunk.error))>>)
          [] OTHER -> same(<<>>)

\* Variant of FlushLines that leaves the suffix on the last line
FlushLinesKeepSuffix(buffered, pending, trim) ==
    IF buffered # <<>> THEN Append(pending, buffered) ELSE pending

\* After the loop, when trimTexts[1] is non-empty: the pending lines to send,
\* the running buffer pushed as the last one and the suffix cut from its end
FlushLines(buffered, pending, trim) ==
    LET pushed == IF buffered # <<>> THEN Append(pending, buffered) ELSE pending
    IN  IF Len(pushed) > 0 /\ EndsWith(Last(pushed), trim[2])
        THEN [pushed EXCEPT ![Len(pushed)] =
                  SubstringTo(Last(pushed), Len(Last(pushed)) - Len(trim[2]))]
        ELSE pushed

\* Variant of FlushCalls that ends every line, the last one too, with a newline
FlushCallsAllNewlines(lines) ==
    [i \in 1..Len(lines) |-> EmitContent(lines[i] \o <<NL>>)]

\* for (i ...) emitData(pendingLines[i] + (isLastLine ? '' : '\n'))
FlushCalls(lines) ==
    [i \in 1..Len(lines) |->
        EmitContent(lines[i] \o (IF i = Len(lines) THEN <<>> ELSE <<NL>>))]

-----------------------------------------------------------------------------
(* request() and the setup of handleStreamingRequest *)

\* Variant of ConvertChatMessageRole with no default branch
ConvertChatMessageRoleNoDefault(role) ==
    CASE role = "System" -> "system"
      [] role = "User" -> "user"
      [] role = "Assistant" -> "assistant"
      [] role = "Function" -> "tool"
      [] OTHER -> "undefined"

\* convertChatMessageRole
ConvertChatMessageRole(role) ==
    CASE role = "System" -> "system"
      [] role = "User" -> "user"
      [] role = "Assistant" -> "assistant"
      [] role = "Function" -> "tool"
      [] OTHER -> "user"

\* messages: the history with its roles converted, then the request as user
BuildMessages(turns, text) ==
    [i \in 1..Len(turns) |->
        [role |-> ConvertChatMessageRole(turns[i].role),
         content |-> turns[i].content]]
    \o <<[role |-> "user", content |-> text]>>

\* Variant of AllFunctions that ignores options.noTool
AllFunctionsAlways(disableTools, functions) == functions

\* options.noTool ? [] : registry.getAllFunctions()
AllFunctions(disableTools, functions) == IF disableTools THEN <<>> ELSE functions

\* convertToolRequestToAITool: description || '', the schema, and an execute
\* that calls the descriptor's handler
ConvertToolRequestToAITool(t) ==
    [description |-> t.description, parameters |-> t.parameters, execute |-> t.handler]

EmptyTable == [n \in {} |-> 0]

\* Variant of FromEntries that keeps the first entry of a key
RECURSIVE FromEntriesFirstWins(_, _)
FromEntriesFirstWins(entries, table) ==
    IF entries = <<>>
    THEN table
    ELSE LET e == Head(entries)
         IN  FromEntriesFirstWins(Tail(entries),
                         [n \in DOMAIN table \cup {e[1]} |->
                             IF n \in DOMAIN table THEN table[n] ELSE e[2]])

\* Object.fromEntries: each entry in turn sets its key
RECURSIVE FromEntries(_, _)
FromEntries(entries, table) ==
    IF entries = <<>>
    THEN table
    ELSE LET e == Head(entries)
         IN  FromEntries(Tail(entries),
                         [n \in DOMAIN table \cup {e[1]} |->
                             IF n = e[1] THEN e[2] ELSE table[n]])

\* aiTools = Object.fromEntries(tools.map(tool => [tool.name, convert(tool)]))
ToolTable(tools) ==
    FromEntries([i \in 1..Len(tools) |->
                    <<tools[i].name, ConvertToolRequestToAITool(tools[i])>>],
                EmptyTable)

\* Variant of RequestCalls that looks up the registry before checking clientId
RequestCallsLateCheck(clientId, disableTools) ==
    IF clientId = ""
    THEN <<"initializeProvider", "getRegistry">>
    ELSE <<"initializeProvider", "getRegistry">>
         \o (IF disableTools THEN <<>> ELSE <<"getAllFunctions">>)
         \o <<"getModelIdentifier", "streamText">>

\* The collaborators request() reaches, in call order
RequestCalls(clientId, disableTools) ==
    IF clientId = ""
    THEN <<"initializeProvider">>
    ELSE <<"initializeProvider", "getRegistry">>
         \o (IF disableTools THEN <<>> ELSE <<"getAllFunctions">>)
         \o <<"getModelIdentifier", "streamText">>

\* The locals and the sink of a call of handleStreamingRequest not yet made
IdleCall ==
    [pc |-> "idle", trimTexts |-> <<>>, aborted |-> FALSE, isFirstChunk |-> TRUE,
     bufferedText |-> <<>>, pendingLines |-> <<>>, chunks |-> <<>>, sink |-> <<>>]

-----------------------------------------------------------------------------
(* Inputs: what a caller may pass and what a provider may yield *)

Prefix == <<"P", ":">>

Suffix == <<":", "E">>

ClientIds == {"", "client-1"}

TrimConfigs == {<<>>, <<Prefix, Suffix>>, <<Prefix, <<>>>>}

TextDelta(text) == [type |-> "text-delta", textDelta |-> text]

ToolCallComplete(id, name, args) ==
    [type |-> "tool-call", toolCallId |-> id, toolName |-> name, args |-> args]

ToolCallStart(id, name) ==
    [type |-> "tool-call-streaming-start", toolCallId |-> id, toolName |-> name]

ToolCallDelta(id, name, delta) ==
    [type |-> "tool-call-delta", toolCallId |-> id, toolName |-> name,
     argsTextDelta |-> delta]

ToolResult(id, name, args, result) ==
    [type |-> "tool-result", toolCallId |-> id, toolName |-> name,
     args |-> args, result |-> result]

ErrorChunk(message) == [type |-> "error", error |-> message]

OtherChunk(type) == [type |-> type]

Texts == {<<"a">>, <<"P", ":", "a">>, <<"a", NL, "b", NL>>, <<"b", ":", "E">>}

TextChunks == {TextDelta(t) : t \in Texts}

ToolChunks ==
    {ToolCallComplete("c1", "search", [q |-> "x"]),
     ToolCallComplete("", "search", [q |-> "x"]),
     ToolCallStart("c1", "search"),
     ToolCallDelta("c1", "search", "{\"q\":"),
     ToolResult("c1", "search", [q |-> "x"], "found")}

ErrorChunks == {ErrorChunk("boom")}

OtherChunks == {OtherChunk("finish")}

Chunks == TextChunks \cup ToolChunks \cup ErrorChunks \cup OtherChunks

\* Date.now().toString()
Timestamps == {"1700000000000", "1700000000001"}

\* What iterating fullStream may throw
Faults == {[name |-> "AbortError", message |-> "aborted"]}

-----------------------------------------------------------------------------
(* The state machine *)

\* History: where the request stood when the token was first cancelled
NotCancelled == [pc |-> "none", chunks |-> 0, sink |-> <<>>]

CancelPoint == [pc |-> pc, chunks |-> Len(chunks), sink |-> sink]

Init ==
    /\ pc = "idle"
    /\ trimTexts = <<>>
    /\ hasToken = FALSE
    /\ cancelled = FALSE
    /\ aborted = FALSE
    /\ isFirstChunk = TRUE
    /\ bufferedText = <<>>
    /\ pendingLines = <<>>
    /\ chunks = <<>>
    /\ caught = NoError
    /\ sink = <<>>
    /\ registry = <<>>
    /\ noTool = FALSE
    /\ allFunctions = <<>>
    /\ aiTools = EmptyTable
    /\ history = <<>>
    /\ request = ""
    /\ messages = <<>>
    /\ trace = <<>>
    /\ cancelAt = NotCancelled
    /\ r2 = IdleCall

\* request(): reject a missing clientId, else enter handleStreamingRequest up
\* to its first await (tool table and messages built, abort bridge registered,
\* stream opened, locals set)
Request(clientId, trim, token, disableTools, turns, text) ==
    /\ pc = "idle"
    /\ trace' = RequestCalls(clientId, disableTools)
    /\ IF clientId = ""
       THEN /\ pc' = "thrown"
            /\ UNCHANGED <<trimTexts, hasToken, isFirstChunk, bufferedText,
                           pendingLines, noTool, allFunctions, aiTools, history,
                           request, messages>>
       ELSE /\ pc' = "streaming"
            /\ noTool' = disableTools
            /\ allFunctions' = AllFunctions(disableTools, registry)
            /\ aiTools' = ToolTable(AllFunctions(disableTools, registry))
            /\ history' = turns
            /\ request' = text
            /\ messages' = BuildMessages(turns, text)
            /\ trimTexts' = trim
            /\ hasToken' = token
            /\ isFirstChunk' = TRUE
            /\ bufferedText' = <<>>
            /\ pendingLines' = <<>>
    /\ UNCHANGED <<cancelled, aborted, chunks, caught, sink, registry, cancelAt, r2>>

\* Variant of ProcessChunk that takes a chunk of no known type for a break in
\* the text: it emits what is held and starts the trim state afresh
ProcessChunkFlushesOnUnknown(chunk, now) ==
    /\ pc = "streaming"
    /\ LET st == [isFirstChunk |-> isFirstChunk,
                  bufferedText |-> bufferedText,
                  pendingLines |-> pendingLines]
           r  == IF chunk.type \in {"text-delta", "tool-call", "tool-call-streaming-start",
                                    "tool-call-delta", "tool-result", "error"}
                 THEN HandleChunk(st, chunk, trimTexts, now)
                 ELSE [isFirstChunk |-> TRUE,
                       bufferedText |-> <<>>,
                       pendingLines |-> <<>>,
                       calls        |-> FlushCalls(Append(pendingLines, bufferedText))]
       IN  /\ isFirstChunk' = r.isFirstChunk
           /\ bufferedText' = r.bufferedText
           /\ pendingLines' = r.pendingLines
           /\ sink' = sink \o r.calls
    /\ chunks' = Append(chunks, chunk)
    /\ UNCHANGED <<pc, trimTexts, hasToken, cancelled, aborted, caught>>
    /\ UNCHANGED <<registry, reqVars, cancelAt, r2>>

\* One iteration of for await (const chunk of stream.fullStream)
ProcessChunk(chunk, now) ==
    /\ pc = "streaming"
    /\ LET r == HandleChunk([isFirstChunk |-> isFirstChunk,
                             bufferedText |-> bufferedText,
                             pendingLines |-> pendingLines],
                            chunk, trimTexts, now)
       IN  /\ isFirstChunk' = r.isFirstChunk
           /\ bufferedText' = r.bufferedText
           /\ pendingLines' = r.pendingLines
           /\ sink' = sink \o r.calls
    /\ chunks' = Append(chunks, chunk)
    /\ UNCHANGED <<pc, trimTexts, hasToken, cancelled, aborted, caught>>
    /\ UNCHANGED <<registry, reqVars, cancelAt, r2>>

\* Variant of StreamEnd that closes the sink before flushing the trim filter
StreamEndClosesFirst ==
    /\ pc = "streaming"
    /\ IF Len(trimTexts) > 0 /\ trimTexts[2] # <<>>
       THEN LET lines == FlushLines(bufferedText, pendingLines, trimTexts)
            IN  /\ pendingLines' = lines
                /\ sink' = Append(sink, End) \o FlushCalls(lines)
       ELSE /\ sink' = Append(sink, End)
            /\ UNCHANGED pendingLines
    /\ pc' = "returned"
    /\ UNCHANGED <<trimTexts, hasToken, cancelled, aborted, isFirstChunk,
                   bufferedText, chunks, caught>>
    /\ UNCHANGED <<registry, reqVars, cancelAt, r2>>

\* fullStream is exhausted: flush when a suffix is configured, end(), return
StreamEnd ==
    /\ pc = "streaming"
    /\ IF Len(trimTexts) > 0 /\ trimTexts[2] # <<>>
       THEN LET lines == FlushLines(bufferedText, pendingLines, trimTexts)
            IN  /\ pendingLines' = lines
                /\ sink' = (sink \o FlushCalls(lines)) \o <<End>>
       ELSE /\ sink' = Append(sink, End)
            /\ UNCHANGED pendingLines
    /\ pc' = "returned"
    /\ UNCHANGED <<trimTexts, hasToken, cancelled, aborted, isFirstChunk,
                   bufferedText, chunks, caught>>
    /\ UNCHANGED <<registry, reqVars, cancelAt, r2>>

\* Variant of IterFault that closes the sink after reporting the fault
IterFaultThenEnd(error) ==
    /\ pc = "streaming"
    /\ caught' = error
    /\ sink' = sink \o <<EmitError(error), End>>
    /\ pc' = "returned"
    /\ UNCHANGED <<trimTexts, hasToken, cancelled, aborted, isFirstChunk,
                   bufferedText, pendingLines, chunks>>
    /\ UNCHANGED <<registry, reqVars, cancelAt, r2>>

\* Variant of IterFault with no catch clause: the fault leaves the call
IterFaultRethrows(error) ==
    /\ pc = "streaming"
    /\ pc' = "thrown"
    /\ UNCHANGED <<trimTexts, hasToken, cancelled, aborted, isFirstChunk,
                   bufferedText, pendingLines, chunks, caught, sink>>
    /\ UNCHANGED <<registry, reqVars, cancelAt, r2>>

\* Iterating fullStream throws: catch (error) { emitError(error) }, return
IterFault(error) ==
    /\ pc = "streaming"
    /\ caught' = error
    /\ sink' = Append(sink, EmitError(error))
    /\ pc' = "returned"
    /\ UNCHANGED <<trimTexts, hasToken, cancelled, aborted, isFirstChunk,
                   bufferedText, pendingLines, chunks>>
    /\ UNCHANGED <<registry, reqVars, cancelAt, r2>>

\* Variant of ProviderTools that reads the registry when the provider looks
ProviderToolsLive == ToolTable(AllFunctions(noTool, registry))

\* tools: aiTools, as streamText holds it
ProviderTools == aiTools

\* The registry gains a tool
RegisterTool(t) ==
    /\ pc \in {"idle", "streaming", "returned"}
    /\ registry' = Append(registry, t)
    /\ UNCHANGED <<pc, trimTexts, hasToken, cancelled, aborted, isFirstChunk,
                   bufferedText, pendingLines, chunks, caught, sink, reqVars,
                   cancelAt, r2>>

\* The registry loses the tools of a name
UnregisterTool(name) ==
    /\ pc \in {"idle", "streaming", "returned"}
    /\ LET Keeps(t) == t.name # name
       IN  registry' = SelectSeq(registry, Keeps)
    /\ UNCHANGED <<pc, trimTexts, hasToken, cancelled, aborted, isFirstChunk,
                   bufferedText, pendingLines, chunks, caught, sink, reqVars,
                   cancelAt, r2>>

\* Variant of Cancel whose listener also reports the cancellation on the sink
CancelReportsError ==
    /\ pc \in {"streaming", "returned"}
    /\ hasToken
    /\ cancelled' = TRUE
    /\ aborted' = TRUE
    /\ cancelAt' = IF cancelled THEN cancelAt ELSE CancelPoint
    /\ sink' = IF cancelled THEN sink ELSE Append(sink, EmitError(NewError("Canceled")))
    /\ UNCHANGED <<pc, trimTexts, hasToken, isFirstChunk, bufferedText,
                   pendingLines, chunks, caught>>
    /\ UNCHANGED <<registry, reqVars, r2>>

\* Variant of Cancel whose listener also closes the sink
CancelClosesSink ==
    /\ pc \in {"streaming", "returned"}
    /\ hasToken
    /\ cancelled' = TRUE
    /\ aborted' = TRUE
    /\ cancelAt' = IF cancelled THEN cancelAt ELSE CancelPoint
    /\ sink' = IF cancelled THEN sink ELSE Append(sink, End)
    /\ UNCHANGED <<pc, trimTexts, hasToken, isFirstChunk, bufferedText,
                   pendingLines, chunks, caught>>
    /\ UNCHANGED <<registry, reqVars, r2>>

\* Variant of Cancel whose listener leaves the abort to a later step
CancelDeferred ==
    /\ pc \in {"streaming", "returned"}
    /\ hasToken
    /\ cancelled' = TRUE
    /\ cancelAt' = IF cancelled THEN cancelAt ELSE CancelPoint
    /\ UNCHANGED <<pc, trimTexts, hasToken, aborted, isFirstChunk, bufferedText,
                   pendingLines, chunks, caught, sink>>
    /\ UNCHANGED <<registry, reqVars, r2>>

\* The token is cancelled: the registered listener runs abortController.abort()
Cancel ==
    /\ pc \in {"streaming", "returned"}
    /\ hasToken
    /\ cancelled' = TRUE
    /\ aborted' = TRUE
    /\ cancelAt' = IF cancelled THEN cancelAt ELSE CancelPoint
    /\ UNCHANGED <<pc, trimTexts, hasToken, isFirstChunk, bufferedText,
                   pendingLines, chunks, caught, sink>>
    /\ UNCHANGED <<registry, reqVars, r2>>

\* The second call: handleStreamingRequest up to its first await
Request2(trim) ==
    /\ r2.pc = "idle"
    /\ r2' = [IdleCall EXCEPT !.pc = "streaming", !.trimTexts = trim]
    /\ UNCHANGED <<pc, trimTexts, hasToken, cancelled, aborted, isFirstChunk,
                   bufferedText, pendingLines, chunks, caught, sink, registry,
                   reqVars, cancelAt>>

\* Variant of ProcessChunk2 whose trim state is the first call's, as if the
\* buffer, the queue and the flag were fields of the instance
ProcessChunk2SharedState(chunk, now) ==
    /\ r2.pc = "streaming"
    /\ LET r == HandleChunk([isFirstChunk |-> isFirstChunk,
                             bufferedText |-> bufferedText,
                             pendingLines |-> pendingLines],
                            chunk, r2.trimTexts, now)
       IN  /\ isFirstChunk' = r.isFirstChunk
           /\ bufferedText' = r.bufferedText
           /\ pendingLines' = r.pendingLines
           /\ r2' = [r2 EXCEPT !.sink = @ \o r.calls,
                               !.chunks = Append(@, chunk)]
    /\ UNCHANGED <<pc, trimTexts, hasToken, cancelled, aborted, chunks, caught,
                   sink, registry, reqVars, cancelAt>>

\* The second call: one iteration of its for-await loop
ProcessChunk2(chunk, now) ==
    /\ r2.pc = "streaming"
    /\ LET r == HandleChunk([isFirstChunk |-> r2.isFirstChunk,
                             bufferedText |-> r2.bufferedText,
                             pendingLines |-> r2.pendingLines],
                            chunk, r2.trimTexts, now)
       IN  r2' = [r2 EXCEPT !.isFirstChunk = r.isFirstChunk,
                            !.bufferedText = r.bufferedText,
                            !.pendingLines = r.pendingLines,
                            !.sink = @ \o r.calls,
                            !.chunks = Append(@, chunk)]
    /\ UNCHANGED <<pc, trimTexts, hasToken, cancelled, aborted, isFirstChunk,
                   bufferedText, pendingLines, chunks, caught, sink, registry,
                   reqVars, cancelAt>>

\* The second call: its fullStream is exhausted
StreamEnd2 ==
    /\ r2.pc = "streaming"
    /\ IF Len(r2.trimTexts) > 0 /\ r2.trimTexts[2] # <<>>
       THEN LET lines == FlushLines(r2.bufferedText, r2.pendingLines, r2.trimTexts)
            IN  r2' = [r2 EXCEPT !.pc = "returned",
                                 !.pendingLines = lines,
                                 !.sink = (@ \o FlushCalls(lines)) \o <<End>>]
       ELSE r2' = [r2 EXCEPT !.pc = "returned", !.sink = Append(@, End)]
    /\ UNCHANGED <<pc, trimTexts, hasToken, cancelled, aborted, isFirstChunk,
                   bufferedText, pendingLines, chunks, caught, sink, registry,
                   reqVars, cancelAt>>

Next ==
    \/ \E c \in ClientIds, t \in TrimConfigs, k \in BOOLEAN :
          Request(c, t, k, FALSE, <<>>, "hi")
    \/ \E c \in Chunks, now \in Timestamps :
          Len(chunks) < MaxChunks /\ ProcessChunk(c, now)
    \/ StreamEnd
    \/ \E e \in Faults : IterFault(e)
    \/ Cancel

Spec == Init /\ [][Next]_vars

-----------------------------------------------------------------------------
(* Vocabulary of the properties *)

IsCall(c, name) == c.call = name

IsContent(c) == c.call = "emitData" /\ c.kind = "content"

IsToolCall(c) == c.call = "emitData" /\ c.kind = "toolCall"

CallCount(name) == Cardinality({i \in 1..Len(sink) : IsCall(sink[i], name)})

HasErrorChunk == \E i \in 1..Len(chunks) : chunks[i].type = "error"

ToolTypes == {"tool-call", "tool-call-streaming-start", "tool-call-delta", "tool-result"}

RECURSIVE Concat(_)
Concat(texts) == IF texts = <<>> THEN <<>> ELSE Head(texts) \o Concat(Tail(texts))

\* The text of the Content events among calls, joined
ContentText(calls) ==
    LET contents == SelectSeq(calls, IsContent)
    IN  Concat([i \in 1..Len(contents) |-> contents[i].text])

\* The text of the TextDelta chunks among cs, joined
DeltaText(cs) ==
    LET IsText(c) == c.type = "text-delta"
        deltas == SelectSeq(cs, IsText)
    IN  Concat([i \in 1..Len(deltas) |-> deltas[i].textDelta])

-----------------------------------------------------------------------------
(* C1..C3: the terminal call *)

\* C1: when no Error chunk was pulled and iteration raised no fault, the sink
\* sees no end() while the request streams, and once the request has returned
\* it has seen end() exactly once, as the last call of all.
C1_EndOnceAndLast ==
    (pc \in {"streaming", "returned"} /\ ~HasErrorChunk /\ caught = NoError) =>
        /\ pc = "streaming" => CallCount("end") = 0
        /\ pc = "returned" =>
              /\ CallCount("end") = 1
              /\ IsCall(Last(sink), "end")
              /\ CallCount("emitError") = 0

C1_Witness ==
    /\ pc = "returned"
    /\ ~HasErrorChunk
    /\ caught = NoError
    /\ trimTexts = <<Prefix, Suffix>>
    /\ Len(chunks) >= 2
    /\ Len(sink) >= 3
    /\ IsCall(Last(sink), "end")

\* C2: when an Error chunk was pulled, the returned request has made exactly
\* one emitError call, nothing after it, and never end().
C2_ErrorChunkIsTerminal ==
    (pc = "returned" /\ HasErrorChunk) =>
        /\ CallCount("emitError") = 1
        /\ IsCall(Last(sink), "emitError")
        /\ CallCount("end") = 0

\* C3: when iterating the chunks raised a fault, the request returned instead
\* of throwing, the sink saw exactly one emitError carrying that fault, as its
\* last call, and never end().
C3_FaultIsCaught ==
    (caught \in Faults) =>
        /\ pc = "returned"
        /\ Last(sink) = EmitError(caught)
        /\ Cardinality({i \in 1..Len(sink) : sink[i] = EmitError(caught)}) = 1
        /\ CallCount("end") = 0

C3_Witness ==
    /\ caught \in Faults
    /\ pc = "returned"
    /\ Len(chunks) >= 2
    /\ Len(sink) >= 2

-----------------------------------------------------------------------------
(* C4: text against tool-call and error events under trim *)

IsEventChunk(c) == c.type \in ToolTypes \cup {"error"}

\* The place in the sink of the call made for chunk k, an event chunk: the
\* j-th call that is no Content, chunk k being the j-th event chunk
EventPos(k) ==
    LET j == Cardinality({m \in 1..k : IsEventChunk(chunks[m])})
    IN  CHOOSE i \in 1..Len(sink) :
            /\ ~IsContent(sink[i])
            /\ Cardinality({m \in 1..i : ~IsContent(sink[m])}) = j

\* text without everything up to and including the first occurrence of prefix
WithoutPrefix(text, prefix) ==
    IF Includes(text, prefix)
    THEN Substring(text, IndexOf(text, prefix) + Len(prefix))
    ELSE text

WithoutSuffix(text, suffix) ==
    IF EndsWith(text, suffix) THEN SubstringTo(text, Len(text) - Len(suffix)) ELSE text

\* C4: with trim configured, at the place of every ToolCall or Error event in
\* the sink, the Content emitted before it is all the text of the TextDelta
\* chunks that came before its chunk, less the stripped prefix and suffix.
C4_NoEventAheadOfText ==
    Len(trimTexts) > 0 =>
        \A k \in 1..Len(chunks) :
            IsEventChunk(chunks[k]) =>
                LET before  == WithoutPrefix(DeltaText(SubSeq(chunks, 1, k - 1)), trimTexts[1])
                    emitted == ContentText(SubSeq(sink, 1, EventPos(k) - 1))
                IN  emitted \in {before, WithoutSuffix(before, trimTexts[2])}

-----------------------------------------------------------------------------
(* C8: the mapping from chunks to events without trim *)

\* The argument object as the text the sink is to receive
ArgsAsText(args) ==
    CASE args = [q |-> "x"] -> "{\"q\":\"x\"}"
      [] args = [q |-> "y"] -> "{\"q\":\"y\"}"

\* call is the event the design gives for chunk
Corresponds(call, chunk) ==
    CASE chunk.type = "text-delta" ->
            call = EmitContent(chunk.textDelta)
      [] chunk.type = "tool-call-streaming-start" ->
            /\ IsToolCall(call)
            /\ call.tool = [id |-> chunk.toolCallId, type |-> "function",
                            function |-> [name |-> chunk.toolName],
                            state |-> "streaming-start"]
      [] chunk.type = "tool-call-delta" ->
            /\ IsToolCall(call)
            /\ call.tool = [id |-> chunk.toolCallId, type |-> "function",
                            function |-> [name |-> chunk.toolName,
                                          arguments |-> chunk.argsTextDelta],
                            state |-> "streaming"]
      [] chunk.type = "tool-call" ->
            /\ IsToolCall(call)
            /\ call.tool.state = "complete"
            /\ call.tool.function = [name |-> chunk.toolName,
                                     arguments |-> ArgsAsText(chunk.args)]
            /\ chunk.toolCallId # "" => call.tool.id = chunk.toolCallId
      [] chunk.type = "tool-result" ->
            /\ IsToolCall(call)
            /\ call.tool = [id |-> chunk.toolCallId, type |-> "function",
                            function |-> [name |-> chunk.toolName,
                                          arguments |-> ArgsAsText(chunk.args)],
                            result |-> chunk.result,
                            state |-> "result"]
      [] OTHER -> FALSE

OnlyTextAndToolChunks ==
    \A i \in 1..Len(chunks) : chunks[i].type \in ToolTypes \cup {"text-delta"}

\* C8: without trim, when only TextDelta and tool chunks were pulled and no
\* fault was raised, the sink holds one event per chunk, in chunk order, each
\* the event of its chunk, and after the return end() follows them.
C8_OneEventPerChunk ==
    (pc \in {"streaming", "returned"} /\ trimTexts = <<>> /\ caught = NoError
        /\ OnlyTextAndToolChunks) =>
        LET events == IF pc = "returned" THEN Front(sink) ELSE sink
        IN  /\ Len(events) = Len(chunks)
            /\ \A i \in 1..Len(chunks) : Corresponds(events[i], chunks[i])
            /\ pc = "returned" => Last(sink) = End

C8_Witness ==
    /\ pc = "returned"
    /\ trimTexts = <<>>
    /\ caught = NoError
    /\ OnlyTextAndToolChunks
    /\ Len(chunks) = 3
    /\ chunks[1].type = "text-delta"
    /\ chunks[2].type = "tool-call"
    /\ chunks[3].type = "tool-result"
    /\ Len(sink) = 4

-----------------------------------------------------------------------------
(* C10: the abort bridge *)

\* C10: the abort signal given to streamText is aborted exactly when the
\* cancellation token has been cancelled: it becomes aborted in the step that
\* cancels the token and in no other.
C10_AbortFollowsCancel == aborted <=> cancelled

C10_Witness ==
    /\ pc = "streaming"
    /\ Len(chunks) >= 1
    /\ cancelled
    /\ aborted

-----------------------------------------------------------------------------
(* C5: "P:hello\nworld:E" under every chunking *)

FullText ==
    <<"P", ":", "h", "e", "l", "l", "o", NL, "w", "o", "r", "l", "d", ":", "E">>

HelloWorld == <<"h", "e", "l", "l", "o", NL, "w", "o", "r", "l", "d">>

\* The provider yields FullText as TextDelta chunks cut at places of its choice
NextRoundTrip ==
    \/ Request("client-1", <<Prefix, Suffix>>, FALSE, FALSE, <<>>, "hi")
    \/ \E n \in 1..Len(FullText), now \in Timestamps :
          LET fed == Len(DeltaText(chunks))
          IN  /\ fed + n <= Len(FullText)
              /\ ProcessChunk(TextDelta(SubSeq(FullText, fed + 1, fed + n)), now)
    \/ DeltaText(chunks) = FullText /\ StreamEnd

SpecRoundTrip == Init /\ [][NextRoundTrip]_vars

\* C5: with prefix "P:" and suffix ":E", however "P:hello\nworld:E" was cut
\* into non-empty TextDelta chunks, the Content texts emitted by the time the
\* sink is closed join to "hello\nworld".
C5_RoundTrip ==
    pc = "returned" =>
        /\ IsCall(Last(sink), "end")
        /\ ContentText(sink) = HelloWorld

C5_Witness ==
    /\ pc = "returned"
    /\ Len(chunks) = Len(FullText)
    /\ ContentText(sink) = HelloWorld

-----------------------------------------------------------------------------
(* C6, C7: newline-terminated lines, one per chunk, with no suffix configured *)

MaxLines == 5

LinePrefixes == {<<>>, Prefix, <<"a", NL>>}

LineTexts == {<<"a", NL>>, <<"b", NL>>, <<NL>>, <<"P", ":", "a", NL>>}

NextLines ==
    \/ \E p \in LinePrefixes : Request("client-1", <<p, <<>>>>, FALSE, FALSE, <<>>, "hi")
    \/ \E l \in LineTexts, now \in Timestamps :
          Len(chunks) < MaxLines /\ ProcessChunk(TextDelta(l), now)
    \/ Len(chunks) = MaxLines /\ StreamEnd

SpecLines == Init /\ [][NextLines]_vars

ContentCount == Cardinality({i \in 1..Len(sink) : IsContent(sink[i])})

\* C6: with trim configured and no suffix, once five newline-terminated lines
\* were fed one per chunk and the sink is closed, all five were emitted as
\* Content, in order: the emitted text is the fed text less the prefix.
C6_AllLinesEmitted ==
    (pc = "returned" /\ Len(chunks) = 5) =>
        /\ ContentCount = 5
        /\ \E stripped \in {DeltaText(chunks), WithoutPrefix(DeltaText(chunks), trimTexts[1])} :
              ContentText(sink) = stripped

\* C7 as claimed: after the 4th of the line chunks and before the 5th, at
\* least 2 lines have been emitted as Content.
C7_TwoLinesBeforeFifth ==
    (pc = "streaming" /\ Len(chunks) = 4) => ContentCount >= 2

\* C7 as amended: with a prefix that holds no newline, after the 4th of the
\* line chunks and before the 5th exactly 1 line has been emitted as Content,
\* the first one fed (less the prefix); the 2nd is emitted with the 5th chunk.
C7_OneLineBeforeFifth ==
    (pc = "streaming" /\ ~Includes(trimTexts[1], <<NL>>)) =>
        /\ Len(chunks) <= 3 => ContentCount = 0
        /\ Len(chunks) = 4 =>
              /\ ContentCount = 1
              /\ sink[1] = EmitContent(WithoutPrefix(chunks[1].textDelta, trimTexts[1]))
        /\ Len(chunks) = 5 => ContentCount = 2

C7_Witness ==
    /\ pc = "streaming"
    /\ trimTexts = <<Prefix, <<>>>>
    /\ Len(chunks) = 4
    /\ chunks[1].textDelta = <<"P", ":", "a", NL>>
    /\ sink = <<EmitContent(<<"a", NL>>)>>

-----------------------------------------------------------------------------
(* C9: tool chunks and their events *)

MaxToolChunks == 4

ToolRunChunks ==
    ToolChunks \cup {ToolCallStart("c2", "read"), TextDelta(<<"a", NL, "b", NL>>),
                     ErrorChunk("boom")}

NextTools ==
    \/ \E t \in TrimConfigs : Request("client-1", t, FALSE, FALSE, <<>>, "hi")
    \/ \E c \in ToolRunChunks, now \in Timestamps :
          Len(chunks) < MaxToolChunks /\ ProcessChunk(c, now)
    \/ StreamEnd
    \/ \E e \in Faults : IterFault(e)

SpecTools == Init /\ [][NextTools]_vars

IsToolChunk(c) == c.type \in ToolTypes

StateOf(type) ==
    CASE type = "tool-call-streaming-start" -> "streaming-start"
      [] type = "tool-call-delta" -> "streaming"
      [] type = "tool-call" -> "complete"
      [] type = "tool-result" -> "result"

\* C9: whatever the trim configuration, the ToolCall events in the sink are
\* one per tool chunk, in chunk order, each with the state of its chunk's kind
\* and its chunk's tool name, and with its chunk's call id when it carries one.
C9_ToolEventsFollowChunks ==
    LET events == SelectSeq(sink, IsToolCall)
        tools  == SelectSeq(chunks, IsToolChunk)
    IN  /\ Len(events) = Len(tools)
        /\ \A i \in 1..Len(tools) :
              /\ events[i].tool.state = StateOf(tools[i].type)
              /\ events[i].tool.function.name = tools[i].toolName
              /\ tools[i].toolCallId # "" => events[i].tool.id = tools[i].toolCallId

C9_Witness ==
    /\ chunks = <<ToolCallStart("c1", "search"),
                  ToolCallDelta("c1", "search", "{\"q\":"),
                  ToolCallDelta("c1", "search", "{\"q\":"),
                  ToolCallComplete("c1", "search", [q |-> "x"])>>
    /\ trimTexts = <<Prefix, Suffix>>
    /\ Len(sink) = 4
    /\ \A i \in 1..4 : IsToolCall(sink[i]) /\ sink[i].tool.id = "c1"
    /\ sink[1].tool.state = "streaming-start"
    /\ sink[2].tool.state = "streaming"
    /\ sink[3].tool.state = "streaming"
    /\ sink[4].tool.state = "complete"

-----------------------------------------------------------------------------
(* C11..C13: cancellation *)

SuffixConfigured == Len(trimTexts) > 0 /\ trimTexts[2] # <<>>

IsPrefixOf(s, t) == Len(s) <= Len(t) /\ SubSeq(t, 1, Len(s)) = s

\* C11: when the token was cancelled while the request streamed and the chunk
\* sequence then ended with no Error chunk pulled and no fault raised, the
\* sink holds no Error event and ends with the one end(); with a suffix
\* configured the calls before end() are the flush of the pending lines, the
\* running buffer among them.
C11_CancelEndsNormally ==
    (cancelAt.pc = "streaming" /\ pc = "returned" /\ caught = NoError /\ ~HasErrorChunk) =>
        /\ CallCount("emitError") = 0
        /\ CallCount("end") = 1
        /\ Last(sink) = End
        /\ SuffixConfigured =>
              /\ Len(sink) > Len(pendingLines)
              /\ SubSeq(sink, Len(sink) - Len(pendingLines), Len(sink) - 1)
                    = FlushCalls(pendingLines)
              /\ bufferedText # <<>> =>
                    /\ Len(pendingLines) >= 1
                    /\ Last(pendingLines) \in
                          {bufferedText, WithoutSuffix(bufferedText, trimTexts[2])}

C11_Witness ==
    /\ cancelAt.pc = "streaming"
    /\ pc = "returned"
    /\ caught = NoError
    /\ ~HasErrorChunk
    /\ SuffixConfigured
    /\ Len(chunks) > cancelAt.chunks
    /\ bufferedText # <<>>
    /\ Len(pendingLines) >= 2
    /\ Last(sink) = End

\* C12: when the token was cancelled after N chunks were pulled, at most N
\* more chunks are processed, and the calls the sink had seen by then stay the
\* beginning of what it sees.
C12_BoundedAfterCancel ==
    cancelAt.pc = "streaming" =>
        /\ Len(chunks) - cancelAt.chunks <= cancelAt.chunks
        /\ IsPrefixOf(cancelAt.sink, sink)

\* C13: once the request has returned no step makes a sink call, and the step
\* that cancels the token makes none either, whatever the request has done.
C13_CancelMakesNoSinkCall ==
    [][/\ pc = "returned" => sink' = sink
       /\ cancelAt' # cancelAt => sink' = sink]_vars

C13_Witness ==
    /\ pc = "returned"
    /\ cancelled
    /\ cancelAt.pc = "returned"
    /\ Len(sink) >= 2

-----------------------------------------------------------------------------
(* C14: a request without clientId *)

\* C14: a request rejected for its missing clientId has opened no provider
\* stream, has not asked for the registry or its functions, and has made no
\* call on the sink.
C14_RejectedBeforeStreaming ==
    pc = "thrown" =>
        /\ \A i \in 1..Len(trace) :
              trace[i] \notin {"getRegistry", "getAllFunctions", "streamText"}
        /\ sink = <<>>
        /\ messages = <<>>

C14_Witness ==
    /\ pc = "thrown"
    /\ trace = <<"initializeProvider">>
    /\ sink = <<>>

-----------------------------------------------------------------------------
(* C15, C17, C19: the tool table *)

MaxTools == 2

ToolRequest(name, handler) ==
    [name |-> name, description |-> "", parameters |-> "schema", handler |-> handler]

ToolRequests == {ToolRequest(n, h) : n \in {"search", "read"}, h \in {"h1", "h2"}}

NextRegistry ==
    \/ \E d \in BOOLEAN : Request("client-1", <<>>, FALSE, d, <<>>, "hi")
    \/ \E t \in ToolRequests : Len(registry) < MaxTools /\ RegisterTool(t)
    \/ \E n \in {"search", "read"} : UnregisterTool(n)
    \/ \E now \in Timestamps :
          Len(chunks) < MaxChunks /\ ProcessChunk(ToolCallStart("c1", "search"), now)
    \/ StreamEnd

SpecRegistry == Init /\ [][NextRegistry]_vars

\* C15: a request made with noTool set has an empty tool table, whatever the
\* registry holds.
C15_NoToolEmptyTable ==
    (pc \in {"streaming", "returned"} /\ noTool) =>
        /\ DOMAIN ProviderTools = {}
        /\ allFunctions = <<>>

C15_Witness ==
    /\ pc = "streaming"
    /\ noTool
    /\ Len(registry) = 2
    /\ registry[1].name # registry[2].name
    /\ DOMAIN ProviderTools = {}
    /\ "getAllFunctions" \notin {trace[i] : i \in 1..Len(trace)}

\* C17: from the start of a request on, the names and adapters of the table
\* streamText holds do not change, whatever becomes of the registry.
C17_ToolTableIsSnapshot ==
    [][pc = "streaming" => ProviderTools' = ProviderTools]_vars

C17_Witness ==
    /\ pc = "streaming"
    /\ ~noTool
    /\ Len(chunks) >= 1
    /\ DOMAIN ProviderTools = {"search"}
    /\ Len(registry) = 2
    /\ \A i \in 1..2 : registry[i].name = "read"

\* The place of the last descriptor of a name among tools
LastOf(tools, name) ==
    CHOOSE i \in 1..Len(tools) :
        /\ tools[i].name = name
        /\ \A j \in (i + 1)..Len(tools) : tools[j].name # name

\* C19: the tool table has one entry for each name among the descriptors
\* handed to the request and no other, each bound to the last descriptor of
\* its name.
C19_LaterDescriptorWins ==
    pc \in {"streaming", "returned"} =>
        /\ DOMAIN aiTools = {allFunctions[i].name : i \in 1..Len(allFunctions)}
        /\ \A n \in DOMAIN aiTools :
              LET d == allFunctions[LastOf(allFunctions, n)]
              IN  aiTools[n] = [description |-> d.description,
                                parameters |-> d.parameters,
                                execute |-> d.handler]

C19_Witness ==
    /\ pc = "streaming"
    /\ Len(allFunctions) = 2
    /\ allFunctions[1].name = "search"
    /\ allFunctions[2].name = "search"
    /\ allFunctions[1].handler = "h1"
    /\ allFunctions[2].handler = "h2"
    /\ DOMAIN aiTools = {"search"}
    /\ aiTools["search"].execute = "h2"

-----------------------------------------------------------------------------
(* C16: the messages *)

MaxHistory == 2

Roles == {"System", "User", "Assistant", "Function", "Unknown"}

Turns == [role : Roles, content : {"", "earlier"}]

Histories == UNION {[1..n -> Turns] : n \in 0..MaxHistory}

NextMessages ==
    \/ \E h \in Histories, q \in {"", "hi"} :
          Request("client-1", <<>>, FALSE, FALSE, h, q)
    \/ StreamEnd

SpecMessages == Init /\ [][NextMessages]_vars

RoleFor(role) ==
    IF role = "System" THEN "system"
    ELSE IF role = "Assistant" THEN "assistant"
    ELSE IF role = "Function" THEN "tool"
    ELSE "user"

\* C16: the messages given to the provider are the history's turns in order,
\* each with its content and its role mapped (System to system, User to user,
\* Assistant to assistant, Function to tool, any other to user), followed by
\* the request as a user message.
C16_MessagesFollowHistory ==
    pc \in {"streaming", "returned"} =>
        /\ Len(messages) = Len(history) + 1
        /\ \A i \in 1..Len(history) :
              messages[i] = [role |-> RoleFor(history[i].role),
                             content |-> history[i].content]
        /\ messages[Len(messages)] = [role |-> "user", content |-> request]

C16_Witness ==
    /\ pc = "streaming"
    /\ Len(history) = 2
    /\ history[1].role = "Function"
    /\ history[2].role = "Unknown"
    /\ messages = <<[role |-> "tool", content |-> history[1].content],
                    [role |-> "user", content |-> history[2].content],
                    [role |-> "user", content |-> request]>>

-----------------------------------------------------------------------------
(* C18: two calls of handleStreamingRequest at once *)

PairChunks == {TextDelta(<<"a", NL, "b", NL>>), ToolCallStart("c1", "search")}

PairTrims == {<<>>, <<Prefix, Suffix>>}

NextPair ==
    \/ \E t \in PairTrims : Request("client-1", t, TRUE, FALSE, <<>>, "hi")
    \/ \E t \in PairTrims : Request2(t)
    \/ \E c \in PairChunks, now \in Timestamps :
          Len(chunks) < MaxChunks /\ ProcessChunk(c, now)
    \/ \E c \in PairChunks, now \in Timestamps :
          Len(r2.chunks) < MaxChunks /\ ProcessChunk2(c, now)
    \/ StreamEnd
    \/ StreamEnd2
    \/ Cancel

SpecPair == Init /\ [][NextPair]_vars

\* The trim state and the calls of a call that processes cs with nothing else
\* running
RECURSIVE RunAlone(_, _, _)
RunAlone(st, cs, trim) ==
    IF cs = <<>>
    THEN st
    ELSE LET r == HandleChunk([isFirstChunk |-> st.isFirstChunk,
                               bufferedText |-> st.bufferedText,
                               pendingLines |-> st.pendingLines],
                              Head(cs), trim, "0")
         IN  RunAlone([r EXCEPT !.calls = st.calls \o @], Tail(cs), trim)

\* The sink of a call that pulls cs, and then returns when done, run alone
SinkAlone(cs, trim, done) ==
    LET st == RunAlone([isFirstChunk |-> TRUE, bufferedText |-> <<>>,
                        pendingLines |-> <<>>, calls |-> <<>>], cs, trim)
    IN  IF ~done
        THEN st.calls
        ELSE IF Len(trim) > 0 /\ trim[2] # <<>>
        THEN (st.calls \o FlushCalls(FlushLines(st.bufferedText, st.pendingLines, trim)))
             \o <<End>>
        ELSE Append(st.calls, End)

\* C18: with two calls in flight, under every interleaving of their steps,
\* each sink holds what its call would have produced alone from its own
\* chunks and trim configuration, and cancelling the first call's token
\* leaves the second call's abort signal alone.
C18_CallsAreIndependent ==
    /\ pc \in {"streaming", "returned"} =>
          sink = SinkAlone(chunks, trimTexts, pc = "returned")
    /\ r2.pc \in {"streaming", "returned"} =>
          r2.sink = SinkAlone(r2.chunks, r2.trimTexts, r2.pc = "returned")
    /\ ~r2.aborted

C18_Witness ==
    /\ pc = "streaming"
    /\ r2.pc = "streaming"
    /\ trimTexts = <<Prefix, Suffix>>
    /\ r2.trimTexts = <<Prefix, Suffix>>
    /\ Len(chunks) = 3
    /\ Len(r2.chunks) = 2
    /\ Len(pendingLines) = 3
    /\ Len(r2.pendingLines) = 2
    /\ ContentText(sink) # <<>>
    /\ aborted

-----------------------------------------------------------------------------
(* C20: chunks after an Error chunk *)

\* C20: an Error chunk is the last chunk the request pulls: no chunk is
\* pulled or processed after it.
C20_NothingPulledAfterError ==
    \A i \in 1..(Len(chunks) - 1) : chunks[i].type # "error"

-----------------------------------------------------------------------------
(* C21: every call returns, its last sink call a terminal one *)

LiveChunks ==
    {TextDelta(<<"a", NL, "b", NL>>), ErrorChunk("boom"), ToolCallStart("c1", "search")}

\* What the provider's iterator does when asked for the next chunk: yield
\* one, report the end, or throw
ProviderStep ==
    \/ \E c \in LiveChunks, now \in Timestamps :
          Len(chunks) < MaxChunks /\ ProcessChunk(c, now)
    \/ StreamEnd
    \/ \E e \in Faults : IterFault(e)

NextLive ==
    \/ \E t \in PairTrims : Request("client-1", t, FALSE, FALSE, <<>>, "hi")
    \/ ProviderStep

\* A finite chunk sequence: the iterator answers every pull, and yields no
\* more than MaxChunks chunks
SpecLive == Init /\ [][NextLive]_vars /\ WF_vars(ProviderStep)

\* C21: whatever the finite chunk sequence (Error chunks, a fault of the
\* iterator, trim configured or not), a call of handleStreamingRequest
\* eventually returns, and the last call it made on the sink is end() or
\* emitError().
C21_EventuallyTerminal ==
    (pc = "streaming") ~>
        (/\ pc = "returned"
         /\ sink # <<>>
         /\ (IsCall(Last(sink), "end") \/ IsCall(Last(sink), "emitError")))

C21_Witness ==
    /\ pc = "returned"
    /\ trimTexts = <<Prefix, Suffix>>
    /\ HasErrorChunk
    /\ caught # NoError
    /\ Len(chunks) = 3
    /\ IsCall(Last(sink), "emitError")

-----------------------------------------------------------------------------
(* C22, C23: a text wrapped in prefix and suffix, under every chunking *)

Body == <<"h", NL, "w">>

NewlinePrefix == <<"P", NL, "Q">>

NewlineSuffix == <<NL, ":", "E">>

ChunkingTrims == {<<Prefix, Suffix>>, <<NewlinePrefix, Suffix>>, <<Prefix, NewlineSuffix>>}

\* The full text of a response: the prefix, the body, the suffix
Wrapped(trim) == (trim[1] \o Body) \o trim[2]

\* The provider yields Wrapped(trimTexts) as TextDelta chunks cut at places of
\* its choice
NextChunkings ==
    \/ \E t \in ChunkingTrims : Request("client-1", t, FALSE, FALSE, <<>>, "hi")
    \/ /\ pc = "streaming"
       /\ \E n \in 1..Len(Wrapped(trimTexts)), now \in Timestamps :
             LET fed == Len(DeltaText(chunks))
             IN  /\ fed + n <= Len(Wrapped(trimTexts))
                 /\ ProcessChunk(TextDelta(SubSeq(Wrapped(trimTexts), fed + 1, fed + n)),
                                 now)
    \/ /\ pc = "streaming"
       /\ DeltaText(chunks) = Wrapped(trimTexts)
       /\ StreamEnd

SpecChunkings == Init /\ [][NextChunkings]_vars

\* text less the prefix, when it starts with it
StripStart(text, prefix) ==
    IF IsPrefixOf(prefix, text) THEN Substring(text, Len(prefix)) ELSE text

\* C22: with a suffix that holds no newline, however the text was cut into
\* TextDelta chunks, the Content emitted by the time the sink is closed joins
\* to the text less the prefix at its start and the suffix at its end.
C22_SameUnderEveryChunking ==
    (pc = "returned" /\ ~Includes(trimTexts[2], <<NL>>)) =>
        ContentText(sink) =
            WithoutSuffix(StripStart(DeltaText(chunks), trimTexts[1]), trimTexts[2])

\* C23: a suffix that holds a newline and ends the full text is cut off at
\* the flush: the Content emitted by the time the sink is closed is the text
\* less prefix and suffix, and so does not end with the suffix.
C23_NewlineSuffixStripped ==
    (/\ pc = "returned"
     /\ Includes(trimTexts[2], <<NL>>)
     /\ EndsWith(DeltaText(chunks), trimTexts[2])) =>
        /\ ~EndsWith(ContentText(sink), trimTexts[2])
        /\ ContentText(sink) =
              WithoutSuffix(StripStart(DeltaText(chunks), trimTexts[1]), trimTexts[2])

-----------------------------------------------------------------------------
(* C24: one occurrence of the prefix, one of the suffix *)

\* lines joined, a newline after each
Held(lines) == Concat([i \in 1..Len(lines) |-> lines[i] \o <<NL>>])

\* lines joined, a newline between them
JoinLines(lines) ==
    IF lines = <<>> THEN <<>> ELSE Held(Front(lines)) \o Last(lines)

\* The text that is past the prefix check: emitted, queued or in the buffer
Passed == (ContentText(sink) \o Held(pendingLines)) \o bufferedText

\* C24: with trim configured, the prefix-pending flag, once cleared, stays
\* cleared; from then on the text of every delta goes on unchanged, later
\* occurrences of the prefix included; and the flush emits the text that was
\* held either whole or less one trailing occurrence of the suffix.
C24_StripsAtMostOnce ==
    [][(pc = "streaming" /\ Len(trimTexts) > 0) =>
          /\ ~isFirstChunk => ~isFirstChunk'
          /\ (~isFirstChunk /\ pc' = "streaming") =>
                Passed' = Passed \o DeltaText(SubSeq(chunks', Len(chunks) + 1, Len(chunks')))
          /\ (pc' = "returned" /\ IsCall(Last(sink'), "end") /\ trimTexts[2] # <<>>) =>
                LET held    == JoinLines(IF bufferedText # <<>>
                                         THEN Append(pendingLines, bufferedText)
                                         ELSE pendingLines)
                    flushed == ContentText(SubSeq(sink', Len(sink) + 1, Len(sink')))
                IN  \/ flushed = held
                    \/ flushed \o trimTexts[2] = held]_vars

C24_Witness ==
    /\ pc = "returned"
    /\ trimTexts = <<Prefix, Suffix>>
    /\ ~isFirstChunk
    /\ DeltaText(chunks) = <<"P", ":", "a", "P", ":", "a", "b", ":", "E">>
    /\ ContentText(sink) = <<"a", "P", ":", "a", "b">>

-----------------------------------------------------------------------------
(* C25: the pending-line queue while streaming *)

\* C25: with trim configured, after every chunk the pending-line queue holds
\* at most 3 lines and the running buffer no newline; and the Content calls
\* of a step are the oldest lines of the queue, in queue order, each with its
\* newline put back, the lines still queued following them.
C25_QueueBoundedOldestFirst ==
    [][(pc = "streaming" /\ pc' = "streaming" /\ Len(trimTexts) > 0) =>
          LET new == SubSeq(sink', Len(sink) + 1, Len(sink'))
              released == SelectSeq(new, IsContent)
          IN  /\ Len(pendingLines') <= 3
              /\ ~Includes(bufferedText', <<NL>>)
              /\ \A i \in 1..Len(released) :
                    /\ Last(released[i].text) = NL
                    /\ ~Includes(Front(released[i].text), <<NL>>)
              /\ IsPrefixOf(pendingLines,
                            [i \in 1..Len(released) |-> Front(released[i].text)]
                            \o pendingLines')]_vars

C25_Witness ==
    /\ pc = "streaming"
    /\ trimTexts = <<Prefix, <<>>>>
    /\ Len(chunks) = 3
    /\ pendingLines = <<<<"b">>, <<"a">>, <<"b">>>>
    /\ bufferedText = <<>>
    /\ Len(sink) = 3
    /\ sink[1] = EmitContent(<<"a", NL>>)
    /\ sink[2] = EmitContent(<<"b", NL>>)
    /\ sink[3] = EmitContent(<<"a", NL>>)

-----------------------------------------------------------------------------
(* C26: the flush *)

\* C26: a request leaves the loop either by a fault, and then its one further
\* call is emitError, or by the end of the stream; at the end of the stream
\* with a non-empty suffix configured its further calls are one Content per
\* remaining pending line, the running buffer being the last of them, in
\* queue order, each but the last with a newline appended, and then end();
\* with no suffix configured end() is its only further call.
C26_FlushOnlyAtEndWithSuffix ==
    [][(pc = "streaming" /\ pc' = "returned") =>
          LET new == SubSeq(sink', Len(sink) + 1, Len(sink'))
              remaining == IF bufferedText # <<>>
                           THEN Append(pendingLines, bufferedText)
                           ELSE pendingLines
              n == Len(remaining)
          IN  IF caught' # caught
              THEN new = <<EmitError(caught')>>
              ELSE IF SuffixConfigured
              THEN /\ Len(new) = n + 1
                   /\ new[n + 1] = End
                   /\ \A i \in 1..(n - 1) : new[i] = EmitContent(remaining[i] \o <<NL>>)
                   /\ n > 0 => \/ new[n] = EmitContent(remaining[n])
                               \/ /\ EndsWith(remaining[n], trimTexts[2])
                                  /\ new[n] = EmitContent(WithoutSuffix(remaining[n],
                                                                        trimTexts[2]))
              ELSE new = <<End>>]_vars

C26_Witness ==
    /\ pc = "returned"
    /\ trimTexts = <<Prefix, Suffix>>
    /\ Len(chunks) = 2
    /\ Len(sink) = 4
    /\ sink[1] = EmitContent(<<"a", NL>>)
    /\ sink[2] = EmitContent(<<"b", NL>>)
    /\ sink[3] = EmitContent(<<"b">>)
    /\ sink[4] = End

-----------------------------------------------------------------------------
(* C27: text that holds neither prefix nor suffix *)

\* C27: with a prefix and a non-empty suffix configured, when neither occurs
\* in the text of the deltas, the Content emitted by the time the sink is
\* closed joins to that text, a newline at its end included.
C27_PlainTextPassesThrough ==
    (/\ pc = "returned"
     /\ caught = NoError
     /\ SuffixConfigured
     /\ ~Includes(DeltaText(chunks), trimTexts[1])
     /\ ~Includes(DeltaText(chunks), trimTexts[2])) =>
        ContentText(sink) = DeltaText(chunks)

-----------------------------------------------------------------------------
(* C28: chunks of no known type *)

KnownTypes == ToolTypes \cup {"text-delta", "error"}

\* C28: a step that pulls a chunk whose type is none of text-delta,
\* tool-call, tool-call-streaming-start, tool-call-delta, tool-result and
\* error makes no sink call and leaves the running buffer, the pending-line
\* queue and the prefix flag as they were.
C28_UnknownChunkIsSkipped ==
    [][(Len(chunks') = Len(chunks) + 1 /\ Last(chunks').type \notin KnownTypes) =>
          /\ sink' = sink
          /\ bufferedText' = bufferedText
          /\ pendingLines' = pendingLines
          /\ isFirstChunk' = isFirstChunk
          /\ pc' = pc]_vars

C28_Witness ==
    /\ pc = "streaming"
    /\ trimTexts = <<Prefix, Suffix>>
    /\ Len(chunks) = 3
    /\ chunks[1] = TextDelta(<<"P", ":", "a">>)
    /\ chunks[2] = TextDelta(<<"a", NL, "b", NL>>)
    /\ chunks[3].type = "finish"
    /\ ~isFirstChunk
    /\ pendingLines = <<<<"a", "a">>, <<"b">>>>
    /\ sink = <<>>

=============================================================================
